---- MODULE Spec2Model ----
(***************************************************************************)
(* A model of scripts/gpx_to_geojson.py (trail-viewer v0.3.4): the GPX to  *)
(* GeoJSON converter, its directory driver, the location patcher and the   *)
(* command-line dispatcher, over a small file system.                      *)
(*                                                                         *)
(* Conventions.  A Python value that may be None is a sequence of length   *)
(* at most one: <<>> is None and <<v>> is the value v.  A string that      *)
(* names a file is held split as Python's pathlib splits it: the directory *)
(* components, the stem and the extension (a sequence of characters, so    *)
(* that the letter case of an extension is data the model can compare).    *)
(***************************************************************************)
EXTENDS Integers, Sequences, FiniteSets, TLC

VARIABLES
    fs,             \* the file system: path -> file (its DOMAIN: what exists)
    unreadable,     \* paths for which open(path, 'r') raises
    unwritable,     \* paths for which open(path, 'w') and mkdir raise
    foldcase,       \* platform: pathlib's glob matches names ignoring case
    sys_argv,       \* sys.argv of the current process
    pc,             \* "idle" | "loop" | "exited": position of the process
    gpx_files,      \* convert_directory: the enumerated list
    idx,            \* convert_directory: 1-based position of the for loop
    success_count,  \* convert_directory: success_count
    stdout,         \* the lines printed by the current process
    calls,          \* the calls of the converter and patcher it has made
    opened_w,       \* the paths it has opened for writing
    exit_status,    \* the status of the process once exited (<<>> before)
    converted       \* path -> the object a conversion last dumped there, and
                    \* the location the last patch since has replaced

vars == <<fs, unreadable, unwritable, foldcase, sys_argv, pc, gpx_files, idx,
          success_count, stdout, calls, opened_w, exit_status, converted>>

-----------------------------------------------------------------------------
(* Bounds of the model. *)

MaxTracks == 2
MaxSegs == 2
MaxPoints == 2
MaxFiles == 3

-----------------------------------------------------------------------------
(* Strings and paths. *)

Chars(s) ==
    CASE s = "gpx" -> <<"g", "p", "x">>
      [] s = "GPX" -> <<"G", "P", "X">>
      [] s = "Gpx" -> <<"G", "p", "x">>
      [] s = "txt" -> <<"t", "x", "t">>
      [] s = "geojson" -> <<"g", "e", "o", "j", "s", "o", "n">>
      [] s = "" -> <<>>

\* A file name: f"{stem}.{ext}", or stem alone when ext is empty.
Name(stem, ext) == [stem |-> stem, ext |-> Chars(ext)]

\* A path string: the directory's components and the final component.
PathOf(dir, stem, ext) == [dir |-> dir, stem |-> stem, ext |-> Chars(ext)]

\* A string that is not used as a path (a flag, a location, the program name).
Str(s) == PathOf(<<>>, s, "")

Empty == Str("")

\* pathlib: Path(p).stem, a string: the final component without its extension.
Stem(p) == [dir |-> <<>>, stem |-> p.stem, ext |-> <<>>]

GeojsonExt == Chars("geojson")

\* pathlib: Path(d) / f"{stem}.geojson".
GeojsonIn(d, stem) ==
    [dir |-> d.dir \o <<[stem |-> d.stem, ext |-> d.ext]>>,
     stem |-> stem.stem, ext |-> GeojsonExt]

\* The directory a path lies in, as a path.
Parent(p) ==
    LET n == Len(p.dir) IN
    [dir |-> SubSeq(p.dir, 1, n - 1), stem |-> p.dir[n].stem, ext |-> p.dir[n].ext]

LowerChar(c) ==
    CASE c = "G" -> "g"
      [] c = "P" -> "p"
      [] c = "X" -> "x"
      [] OTHER -> c

Lower(cs) == [i \in 1..Len(cs) |-> LowerChar(cs[i])]

-----------------------------------------------------------------------------
(* The parsed GPX document: gpx.tracks, track.segments, segment.points. *)

NoneV == <<>>
Some(v) == <<v>>

Points ==
    { [longitude |-> 1, latitude |-> 40, elevation |-> NoneV],
      [longitude |-> 2, latitude |-> 41, elevation |-> Some(0)] }

SeqsUpTo(S, n) == UNION {[1..k -> S] : k \in 0..n}

RECURSIVE PointCount(_)
PointCount(segs) ==
    IF segs = <<>> THEN 0 ELSE Len(segs[1].points) + PointCount(Tail(segs))

RECURSIVE Sum(_)
Sum(ns) == IF ns = <<>> THEN 0 ELSE Head(ns) + Sum(Tail(ns))

\* The shape of a track: the number of points of each of its segments.
TrackShapes ==
    { ts \in SeqsUpTo(0..MaxPoints, MaxSegs) : Sum(ts) <= MaxPoints }

\* The number of points of a document of shape sh (a sequence of track shapes).
RECURSIVE ShapeTotal(_)
ShapeTotal(sh) == IF sh = <<>> THEN 0 ELSE Sum(Head(sh)) + ShapeTotal(Tail(sh))

\* The document of shape sh whose points are, in document order, pts; its
\* tracks carry no name and no description.
DocOfShape(sh, pts) ==
    [t \in 1..Len(sh) |->
        [name |-> NoneV, description |-> NoneV,
         segments |-> [g \in 1..Len(sh[t]) |->
            [points |-> [k \in 1..sh[t][g] |->
                pts[ShapeTotal(SubSeq(sh, 1, t - 1))
                    + Sum(SubSeq(sh[t], 1, g - 1)) + k]]]]]]

\* Documents that vary the metadata of each track: a track has no segment or
\* one segment of one point.
TrackNames == {NoneV, Some(Empty), Some(Str("Morning Run"))}
TrackDescs == {NoneV, Some(Empty), Some(Str("A loop"))}
OnePoint == [longitude |-> 1, latitude |-> 40, elevation |-> NoneV]
MetaTracks ==
    { [name |-> n, description |-> d, segments |-> sl]
        : n \in TrackNames, d \in TrackDescs,
          sl \in {<<>>, <<[points |-> <<OnePoint>>]>>} }

-----------------------------------------------------------------------------
(* Python objects as json handles them, and the JSON text of a file.  The  *)
(* text is the token sequence json.dump writes, without its white space.   *)

PyStr(s) == [t |-> "str", s |-> s, n |-> 0, items |-> <<>>]
PyNum(n) == [t |-> "num", s |-> Empty, n |-> n, items |-> <<>>]
PyNull == [t |-> "null", s |-> Empty, n |-> 0, items |-> <<>>]
PyList(items) == [t |-> "list", s |-> Empty, n |-> 0, items |-> items]
\* A dict keeps its keys in insertion order: a sequence of [k, v].
PyDict(pairs) == [t |-> "dict", s |-> Empty, n |-> 0, items |-> pairs]

HasKey(d, k) == \E i \in 1..Len(d.items) : d.items[i].k = k

\* d[k], for a dict d that has the key.
Get(d, k) == d.items[CHOOSE i \in 1..Len(d.items) : d.items[i].k = k].v

Keys(d) == {d.items[i].k : i \in 1..Len(d.items)}

\* d[k] = v: an existing key keeps its place, a new key goes last.
DictSet(d, k, v) ==
    IF HasKey(d, k)
    THEN PyDict([i \in 1..Len(d.items) |->
                    IF d.items[i].k = k THEN [k |-> k, v |-> v] ELSE d.items[i]])
    ELSE PyDict(Append(d.items, [k |-> k, v |-> v]))

Tok(t, k, s, n) == [t |-> t, k |-> k, s |-> s, n |-> n]
Punct(c) == Tok(c, "", Empty, 0)

\* json.dump(obj, f, indent=2).
RECURSIVE Dump(_)
RECURSIVE DumpItems(_)
RECURSIVE DumpPairs(_)
Dump(v) ==
    CASE v.t = "str" -> <<Tok("str", "", v.s, 0)>>
      [] v.t = "num" -> <<Tok("num", "", Empty, v.n)>>
      [] v.t = "null" -> <<Punct("null")>>
      [] v.t = "list" -> <<Punct("[")>> \o DumpItems(v.items) \o <<Punct("]")>>
      [] v.t = "dict" -> <<Punct("{")>> \o DumpPairs(v.items) \o <<Punct("}")>>
DumpItems(items) ==
    IF items = <<>> THEN <<>> ELSE Dump(Head(items)) \o DumpItems(Tail(items))
DumpPairs(pairs) ==
    IF pairs = <<>> THEN <<>>
    ELSE <<Tok("key", Head(pairs).k, Empty, 0)>> \o Dump(Head(pairs).v)
         \o DumpPairs(Tail(pairs))

ParseFail == [ok |-> FALSE, val |-> PyNull, next |-> 0]

\* json's decoder: the value that starts at token i and the place after it.
RECURSIVE ParseValue(_, _)
RECURSIVE ParseItems(_, _, _)
RECURSIVE ParsePairs(_, _, _)
ParseValue(toks, i) ==
    IF i > Len(toks) THEN ParseFail
    ELSE CASE toks[i].t = "str" -> [ok |-> TRUE, val |-> PyStr(toks[i].s), next |-> i + 1]
           [] toks[i].t = "num" -> [ok |-> TRUE, val |-> PyNum(toks[i].n), next |-> i + 1]
           [] toks[i].t = "null" -> [ok |-> TRUE, val |-> PyNull, next |-> i + 1]
           [] toks[i].t = "[" -> ParseItems(toks, i + 1, <<>>)
           [] toks[i].t = "{" -> ParsePairs(toks, i + 1, PyDict(<<>>))
           [] OTHER -> ParseFail
ParseItems(toks, i, acc) ==
    IF i > Len(toks) THEN ParseFail
    ELSE IF toks[i].t = "]" THEN [ok |-> TRUE, val |-> PyList(acc), next |-> i + 1]
    ELSE LET r == ParseValue(toks, i) IN
         IF r.ok THEN ParseItems(toks, r.next, Append(acc, r.val)) ELSE ParseFail
ParsePairs(toks, i, acc) ==
    IF i > Len(toks) THEN ParseFail
    ELSE IF toks[i].t = "}" THEN [ok |-> TRUE, val |-> acc, next |-> i + 1]
    ELSE IF toks[i].t # "key" THEN ParseFail
    ELSE LET r == ParseValue(toks, i + 1) IN
         IF r.ok THEN ParsePairs(toks, r.next, DictSet(acc, toks[i].k, r.val))
         ELSE ParseFail

\* json.load(f) on a text: fails on a malformed text and on extra data.
Load(toks) ==
    LET r == ParseValue(toks, 1) IN
    IF r.ok /\ r.next = Len(toks) + 1 THEN r ELSE ParseFail

-----------------------------------------------------------------------------
(* Files. *)

\* A GPX file that gpxpy parses into the document doc.
GpxFile(doc) == [fmt |-> "gpx", doc |-> doc, toks |-> <<>>]
\* Any other text, given as the tokens json sees in it.
TextFile(toks) == [fmt |-> "text", doc |-> <<>>, toks |-> toks]
\* A directory.
Dir == [fmt |-> "dir", doc |-> <<>>, toks |-> <<>>]

IsFile(files, p) == p \in DOMAIN files /\ files[p].fmt # "dir"
IsDir(files, p) == p \in DOMAIN files /\ files[p].fmt = "dir"

\* open(p, 'r') succeeds.
CanRead(files, p) == IsFile(files, p) /\ p \notin unreadable
\* open(p, 'w') succeeds: it creates or truncates the file.
CanWrite(files, p) ==
    /\ ~IsDir(files, p)
    /\ p \notin unwritable
    /\ (p.dir = <<>> \/ IsDir(files, Parent(p)))

-----------------------------------------------------------------------------
(* convert_gpx_to_geojson. *)

\* A converter that tests the elevation for truth: `if point.elevation:`.
CoordIfElevationTrue(point) ==
    LET coord == <<PyNum(point.longitude), PyNum(point.latitude)>> IN
    IF point.elevation # NoneV /\ point.elevation[1] # 0
    THEN PyList(Append(coord, PyNum(point.elevation[1])))
    ELSE PyList(coord)

\* coord = [point.longitude, point.latitude], and the elevation appended when
\* point.elevation is not None.
Coord(point) ==
    LET coord == <<PyNum(point.longitude), PyNum(point.latitude)>> IN
    IF point.elevation # NoneV
    THEN PyList(Append(coord, PyNum(point.elevation[1])))
    ELSE PyList(coord)

\* for point in segment.points: coordinates.append(coord)
RECURSIVE PointLoop(_, _)
PointLoop(points, coordinates) ==
    IF points = <<>> THEN coordinates
    ELSE PointLoop(Tail(points), Append(coordinates, Coord(Head(points))))

\* for segment in track.segments
RECURSIVE SegmentLoop(_, _)
SegmentLoop(segments, coordinates) ==
    IF segments = <<>> THEN coordinates
    ELSE SegmentLoop(Tail(segments), PointLoop(Head(segments).points, coordinates))

\* for track in gpx.tracks
RECURSIVE TrackLoop(_, _)
TrackLoop(tracks, coordinates) ==
    IF tracks = <<>> THEN coordinates
    ELSE TrackLoop(Tail(tracks), SegmentLoop(Head(tracks).segments, coordinates))

\* A converter that reads only the first track.
CoordinatesOfFirstTrack(gpx) ==
    IF gpx = <<>> THEN <<>> ELSE SegmentLoop(gpx[1].segments, <<>>)

Coordinates(gpx) == TrackLoop(gpx, <<>>)

\* A check that lets an empty list through.
NeverEmpty(coordinates) == FALSE

\* if not coordinates: raise ValueError
NoCoordinates(coordinates) == coordinates = <<>>

\* A str is true when it is not empty; None is false.
Truthy(opt) == opt # NoneV /\ opt[1] # Empty

\* A converter that takes the name of the first track that has one.
RECURSIVE FeatureNameOfAnyTrack(_, _)
FeatureNameOfAnyTrack(gpx, gpx_path) ==
    IF gpx = <<>> THEN Stem(gpx_path)
    ELSE IF Truthy(gpx[1].name) THEN gpx[1].name[1]
    ELSE FeatureNameOfAnyTrack(Tail(gpx), gpx_path)

FeatureName(gpx, gpx_path) ==
    IF gpx # <<>> /\ Truthy(gpx[1].name) THEN gpx[1].name[1] ELSE Stem(gpx_path)

FeatureDescription(gpx) ==
    IF gpx # <<>> /\ Truthy(gpx[1].description) THEN gpx[1].description[1] ELSE Empty

FeatureType == PyStr(Str("Feature"))
LineStringType == PyStr(Str("LineString"))

Feature(name, description, coordinates) ==
    PyDict(<<
        [k |-> "type", v |-> FeatureType],
        [k |-> "properties", v |-> PyDict(<<
            [k |-> "name", v |-> PyStr(name)],
            [k |-> "description", v |-> PyStr(description)] >>)],
        [k |-> "geometry", v |-> PyDict(<<
            [k |-> "type", v |-> LineStringType],
            [k |-> "coordinates", v |-> PyList(coordinates)] >>)] >>)

Line(kind, a, b, n, m) == [kind |-> kind, a |-> a, b |-> b, n |-> n, m |-> m]

\* The outcome of a call: the value returned, the file system after it, the
\* line printed, the paths opened for writing and the object dumped (if any).
ConvertFailed(files, gpx_path) ==
    [ret |-> FALSE, files |-> files,
     line |-> Line("error_converting", gpx_path, Empty, 0, 0),
     opened |-> {}, dumped |-> <<>>]

\* with open(geojson_path, 'w') as f: json.dump(geojson, f); return True
WriteGeojson(files, gpx_path, geojson_path, geojson) ==
    IF ~CanWrite(files, geojson_path) THEN ConvertFailed(files, gpx_path)
    ELSE [ret |-> TRUE,
          files |-> (geojson_path :> TextFile(Dump(geojson))) @@ files,
          line |-> Line("converted", gpx_path, geojson_path, 0, 0),
          opened |-> {geojson_path},
          dumped |-> <<geojson>>]

\* The body of the try block once the file is parsed into gpx and the
\* coordinates are extracted.
ConvertParsed(files, gpx_path, geojson_path, gpx, coordinates) ==
    IF NoCoordinates(coordinates) THEN ConvertFailed(files, gpx_path)
    ELSE WriteGeojson(files, gpx_path, geojson_path,
                      Feature(FeatureName(gpx, gpx_path), FeatureDescription(gpx),
                              coordinates))

ConvertGpxToGeojson(files, gpx_path, geojson_path) ==
    IF ~CanRead(files, gpx_path) THEN ConvertFailed(files, gpx_path)
    ELSE IF files[gpx_path].fmt # "gpx" THEN ConvertFailed(files, gpx_path)
    ELSE ConvertParsed(files, gpx_path, geojson_path, files[gpx_path].doc,
                       Coordinates(files[gpx_path].doc))

-----------------------------------------------------------------------------
(* add_location_to_geojson. *)

PatchFailed(files, geojson_path) ==
    [files |-> files, line |-> Line("error_updating", geojson_path, Empty, 0, 0),
     opened |-> {}]

\* geojson['properties']['location'] = location succeeds: geojson is a dict
\* with the key, and the value under it is a dict.
CanSetLocation(geojson) ==
    /\ geojson.t = "dict"
    /\ HasKey(geojson, "properties")
    /\ Get(geojson, "properties").t = "dict"

\* A patcher that replaces the properties by the location alone.
SetLocationOnly(geojson, location) ==
    DictSet(geojson, "properties",
            PyDict(<<[k |-> "location", v |-> PyStr(location)]>>))

SetLocation(geojson, location) ==
    DictSet(geojson, "properties",
            DictSet(Get(geojson, "properties"), "location", PyStr(location)))

\* A patcher that opens the file for writing before it has loaded it.
AddLocationTruncatingFirst(files, geojson_path, location) ==
    IF ~CanRead(files, geojson_path) \/ ~CanWrite(files, geojson_path)
    THEN PatchFailed(files, geojson_path)
    ELSE LET r == IF files[geojson_path].fmt = "text"
                  THEN Load(files[geojson_path].toks) ELSE ParseFail
         IN  IF r.ok /\ CanSetLocation(r.val)
             THEN [files |-> (geojson_path :> TextFile(Dump(SetLocation(r.val, location))))
                                @@ files,
                   line |-> Line("added_location", geojson_path, location, 0, 0),
                   opened |-> {geojson_path}]
             ELSE [files |-> (geojson_path :> TextFile(<<>>)) @@ files,
                   line |-> Line("error_updating", geojson_path, Empty, 0, 0),
                   opened |-> {geojson_path}]

AddLocationToGeojson(files, geojson_path, location) ==
    IF ~CanRead(files, geojson_path) THEN PatchFailed(files, geojson_path)
    ELSE IF files[geojson_path].fmt # "text" THEN PatchFailed(files, geojson_path)
    ELSE LET r == Load(files[geojson_path].toks) IN
         IF ~r.ok THEN PatchFailed(files, geojson_path)
         ELSE IF ~CanSetLocation(r.val) THEN PatchFailed(files, geojson_path)
         ELSE IF ~CanWrite(files, geojson_path) THEN PatchFailed(files, geojson_path)
         ELSE [files |-> (geojson_path :> TextFile(Dump(SetLocation(r.val, location))))
                            @@ files,
               line |-> Line("added_location", geojson_path, location, 0, 0),
               opened |-> {geojson_path}]

-----------------------------------------------------------------------------
(* convert_directory: os.makedirs and the two globs. *)

\* os.makedirs(d, exist_ok=True): a missing parent is made first, then d;
\* it raises when d is a file or cannot be created.
RECURSIVE MakeDirs(_, _)
MakeDirs(files, d) ==
    IF IsDir(files, d) THEN [ok |-> TRUE, files |-> files]
    ELSE LET up == IF d.dir = <<>> \/ Parent(d) \in DOMAIN files
                   THEN [ok |-> TRUE, files |-> files]
                   ELSE MakeDirs(files, Parent(d))
         IN  IF ~up.ok THEN up
             ELSE IF \/ d \in DOMAIN up.files
                     \/ d \in unwritable
                     \/ (d.dir # <<>> /\ ~IsDir(up.files, Parent(d)))
                  THEN [ok |-> FALSE, files |-> up.files]
                  ELSE [ok |-> TRUE, files |-> (d :> Dir) @@ up.files]

\* The entries directly inside directory d.
Entries(files, d) ==
    {p \in DOMAIN files : p.dir # <<>> /\ Parent(p) = d}

\* fnmatch of a name against '*.<pattern>', by the platform's rule of case.
Matches(p, pattern) ==
    IF foldcase THEN Lower(p.ext) = Lower(Chars(pattern)) ELSE p.ext = Chars(pattern)

\* list(Path(d).glob('*.<pattern>')) over a listing of d.
RECURSIVE Glob(_, _)
Glob(listing, pattern) ==
    IF listing = <<>> THEN <<>>
    ELSE IF Matches(Head(listing), pattern)
         THEN <<Head(listing)>> \o Glob(Tail(listing), pattern)
         ELSE Glob(Tail(listing), pattern)

\* gpx_files = list(glob('*.gpx')) + list(glob('*.GPX'))
GpxFiles(listing) == Glob(listing, "gpx") \o Glob(listing, "GPX")

\* The orders in which the operating system may list a set of entries.
Listings(S) ==
    {l \in [1..Cardinality(S) -> S] : \A i, j \in DOMAIN l : i # j => l[i] # l[j]}

-----------------------------------------------------------------------------
(* main, and the loop of convert_directory, as the steps of one process. *)

Call(fn, a, b, ret) == [fn |-> fn, a |-> a, b |-> b, ret |-> ret]

AddLocationFlag == Str("--add-location")

\* A process starts with the arguments av.
Start(av) ==
    /\ pc \in {"idle", "exited"}
    /\ sys_argv' = av
    /\ UNCHANGED <<unreadable, unwritable, foldcase>>

\* The process ends: what it printed, called and opened, and its status.
Exit(status, lines, made, opened) ==
    /\ pc' = "exited"
    /\ exit_status' = Some(status)
    /\ stdout' = lines
    /\ calls' = made
    /\ opened_w' = opened
    /\ gpx_files' = <<>>
    /\ idx' = 1
    /\ success_count' = 0

\* The conversions recorded once a call of the converter has returned r.
Record(r, geojson_path) ==
    IF r.ret
    THEN (geojson_path :> [dumped |-> r.dumped[1], replaced |-> NoneV]) @@ converted
    ELSE converted

\* The location a patch of a converted file replaces: None when the file had none.
Replaced(r, geojson_path) ==
    IF r.opened # {} /\ geojson_path \in DOMAIN converted
    THEN LET properties == Get(Load(fs[geojson_path].toks).val, "properties") IN
         [converted EXCEPT ![geojson_path].replaced =
            IF HasKey(properties, "location")
            THEN Some(Get(properties, "location").s) ELSE NoneV]
    ELSE converted

\* len(sys.argv) < 3: the usage text, sys.exit(1).
Usage(av) ==
    /\ Start(av)
    /\ Len(av) < 3
    /\ Exit(1, <<Line("usage", Empty, Empty, 0, 0)>>, <<>>, {})
    /\ UNCHANGED <<fs, converted>>

IsAddLocation(av) == av[2] = AddLocationFlag /\ Len(av) >= 4

\* sys.argv[1] == '--add-location' and len(sys.argv) >= 4
AddLocationMode(av) ==
    /\ Start(av)
    /\ Len(av) >= 3
    /\ IsAddLocation(av)
    /\ \E r \in {AddLocationToGeojson(fs, av[3], av[4])} :
       /\ fs' = r.files
       /\ Exit(0, <<r.line>>, <<Call("add_location", av[3], av[4], "None")>>, r.opened)
       /\ converted' = Replaced(r, av[3])

\* os.path.isdir(input_path): convert_directory up to its for loop.
DirectoryMode(av) ==
    /\ Start(av)
    /\ Len(av) >= 3
    /\ ~IsAddLocation(av)
    /\ IsDir(fs, av[2])
    /\ \E md \in {MakeDirs(fs, av[3])} :
       /\ fs' = md.files
       /\ IF ~md.ok
          THEN \* os.makedirs raised; nothing catches it: traceback, status 1
               Exit(1, <<>>, <<>>, {})
          ELSE \E listing \in Listings(Entries(md.files, av[2])) :
                 LET found == GpxFiles(listing) IN
                 IF found = <<>>
                 THEN Exit(0, <<Line("no_gpx_files", av[2], Empty, 0, 0)>>, <<>>, {})
                 ELSE /\ pc' = "loop"
                      /\ gpx_files' = found
                      /\ idx' = 1
                      /\ success_count' = 0
                      /\ stdout' = <<Line("found", av[2], Empty, Len(found), 0)>>
                      /\ calls' = <<>>
                      /\ opened_w' = {}
                      /\ exit_status' = NoneV
    /\ UNCHANGED converted

\* A loop whose converter lets its exception through: the first failure ends
\* the process with a traceback.
LoopStepAborting ==
    /\ pc = "loop"
    /\ idx <= Len(gpx_files)
    /\ LET gpx_path == gpx_files[idx]
           geojson_path == GeojsonIn(sys_argv[3], Stem(gpx_path))
       IN  \E r \in {ConvertGpxToGeojson(fs, gpx_path, geojson_path)} :
           /\ fs' = r.files
           /\ stdout' = IF r.ret THEN Append(stdout, r.line) ELSE stdout
           /\ calls' = Append(calls, Call("convert", gpx_path, geojson_path,
                                          IF r.ret THEN "True" ELSE "raised"))
           /\ opened_w' = opened_w \cup r.opened
           /\ success_count' = IF r.ret THEN success_count + 1 ELSE success_count
           /\ converted' = Record(r, geojson_path)
           /\ pc' = IF r.ret THEN pc ELSE "exited"
           /\ exit_status' = IF r.ret THEN exit_status ELSE Some(1)
    /\ idx' = idx + 1
    /\ UNCHANGED <<unreadable, unwritable, foldcase, sys_argv, gpx_files>>

\* One iteration of: for gpx_path in gpx_files.
LoopStep ==
    /\ pc = "loop"
    /\ idx <= Len(gpx_files)
    /\ LET gpx_path == gpx_files[idx]
           geojson_path == GeojsonIn(sys_argv[3], Stem(gpx_path))
       IN  \E r \in {ConvertGpxToGeojson(fs, gpx_path, geojson_path)} :
           /\ fs' = r.files
           /\ stdout' = Append(stdout, r.line)
           /\ calls' = Append(calls, Call("convert", gpx_path, geojson_path,
                                          IF r.ret THEN "True" ELSE "False"))
           /\ opened_w' = opened_w \cup r.opened
           /\ success_count' = IF r.ret THEN success_count + 1 ELSE success_count
           /\ converted' = Record(r, geojson_path)
    /\ idx' = idx + 1
    /\ UNCHANGED <<unreadable, unwritable, foldcase, sys_argv, pc, gpx_files,
                   exit_status>>

\* After the loop: the summary line; main returns.
Summary ==
    /\ pc = "loop"
    /\ idx > Len(gpx_files)
    /\ pc' = "exited"
    /\ exit_status' = Some(0)
    /\ stdout' = Append(stdout, Line("summary", Empty, Empty, success_count,
                                     Len(gpx_files)))
    /\ UNCHANGED <<fs, unreadable, unwritable, foldcase, sys_argv, gpx_files, idx,
                   success_count, calls, opened_w, converted>>

\* os.path.isfile(input_path): one conversion.
SingleFileMode(av) ==
    /\ Start(av)
    /\ Len(av) >= 3
    /\ ~IsAddLocation(av)
    /\ ~IsDir(fs, av[2])
    /\ IsFile(fs, av[2])
    /\ \E r \in {ConvertGpxToGeojson(fs, av[2], av[3])} :
       /\ fs' = r.files
       /\ Exit(0, <<r.line>>,
               <<Call("convert", av[2], av[3], IF r.ret THEN "True" ELSE "False")>>,
               r.opened)
       /\ converted' = Record(r, av[3])

\* Neither a directory nor a file: the error line, sys.exit(1).
InvalidInput(av) ==
    /\ Start(av)
    /\ Len(av) >= 3
    /\ ~IsAddLocation(av)
    /\ ~IsDir(fs, av[2])
    /\ ~IsFile(fs, av[2])
    /\ Exit(1, <<Line("not_valid", av[2], Empty, 0, 0)>>, <<>>, {})
    /\ UNCHANGED <<fs, converted>>

-----------------------------------------------------------------------------
(* The paths, files and command lines the processes are run on. *)

Prog == Str("gpx_to_geojson.py")
InDir == Str("in")
OutDir == Str("out")
InFile(stem, ext) == PathOf(<<Name("in", "")>>, stem, ext)
OutFile(stem) == PathOf(<<Name("out", "")>>, stem, "geojson")
SubDir == PathOf(<<Name("in", "")>>, "sub", "")
SubFile == PathOf(<<Name("in", ""), Name("sub", "")>>, "c", "gpx")
TrackGpx == InFile("a", "gpx")
TrackOut == PathOf(<<>>, "track", "geojson")
Missing == PathOf(<<>>, "missing", "gpx")
Yosemite == Str("Yosemite, CA")
Tahoe == Str("Tahoe, CA")

NoFiles == [p \in {} |-> Dir]
NoObjects == [p \in {} |-> PyNull]

RECURSIVE TotalPoints(_)
TotalPoints(gpx) ==
    IF gpx = <<>> THEN 0 ELSE PointCount(gpx[1].segments) + TotalPoints(Tail(gpx))

\* The spec's example: one track "Morning Run", one segment, two points.
MorningRun ==
    << [name |-> Some(Str("Morning Run")), description |-> NoneV,
        segments |-> << [points |-> <<
            [longitude |-> 1, latitude |-> 40, elevation |-> Some(5)],
            [longitude |-> 2, latitude |-> 41, elevation |-> NoneV] >>] >>] >>
Unnamed == <<[name |-> NoneV, description |-> NoneV,
              segments |-> <<[points |-> <<OnePoint>>]>>]>>
NoTracks == <<>>

\* A text that is not JSON (nor GPX): an object that is never closed.
Junk == TextFile(<<Punct("{"), Tok("key", "type", Empty, 0)>>)
OldFeature == Feature(Str("Old"), Empty, <<Coord(OnePoint)>>)
OldOut == TextFile(Dump(OldFeature))

World(files, nr, nw, fold) ==
    [fs |-> files, unreadable |-> nr, unwritable |-> nw, foldcase |-> fold]

InWorld(w) ==
    /\ fs = w.fs
    /\ unreadable = w.unreadable
    /\ unwritable = w.unwritable
    /\ foldcase = w.foldcase
    /\ sys_argv = <<>>
    /\ pc = "idle"
    /\ gpx_files = <<>>
    /\ idx = 1
    /\ success_count = 0
    /\ stdout = <<>>
    /\ calls = <<>>
    /\ opened_w = {}
    /\ exit_status = NoneV
    /\ converted = NoObjects

\* One GPX file beside the place of the output.
OneFile(input) == (InDir :> Dir) @@ (TrackGpx :> input)

\* Single conversions on a sound file system, of every document of at most
\* MaxTracks tracks, MaxSegs segments a track and MaxPoints points.
InitGeometry ==
    \E n \in 0..MaxTracks : \E sh \in [1..n -> TrackShapes] :
        /\ ShapeTotal(sh) <= MaxPoints
        /\ \E pts \in [1..ShapeTotal(sh) -> Points] :
             InWorld(World(OneFile(GpxFile(DocOfShape(sh, pts))), {}, {}, FALSE))

\* Single conversions on a sound file system, of every document of at most
\* MaxTracks tracks that differ in name, description and having a point.
InitMetadata ==
    \E n \in 0..MaxTracks : \E gpx \in [1..n -> MetaTracks] :
        InWorld(World(OneFile(GpxFile(gpx)), {}, {}, FALSE))

\* Single conversions of the documents without a point, of the spec's example
\* and of a text that is not GPX, on every file system: the output exists or
\* not, and each of the two paths can be opened or not.
InitFailures ==
    \E n \in 0..MaxTracks : \E sh \in [1..n -> TrackShapes] :
        /\ ShapeTotal(sh) = 0
        /\ \E input \in {GpxFile(DocOfShape(sh, <<>>)), GpxFile(MorningRun), Junk},
              old \in BOOLEAN,
              nr \in SUBSET {TrackGpx}, nw \in SUBSET {TrackOut} :
             InWorld(World(IF old THEN (TrackOut :> OldOut) @@ OneFile(input)
                           ELSE OneFile(input),
                           nr, nw, FALSE))

ArgvConvert == { <<Prog, TrackGpx, TrackOut>> }

InitConvert == InitGeometry \/ InitMetadata \/ InitFailures

NextConvert == \E av \in ArgvConvert : SingleFileMode(av)

SpecConvert == InitConvert /\ [][NextConvert]_vars

-----------------------------------------------------------------------------
(* What a conversion must have written, stated from the document alone.    *)

\* The positions <<t, s, k>> of the points of a document.
Positions(gpx) ==
    { <<t, s, k>> \in (1..MaxTracks) \X (1..MaxSegs) \X (1..MaxPoints) :
        /\ t <= Len(gpx)
        /\ s <= Len(gpx[t].segments)
        /\ k <= Len(gpx[t].segments[s].points) }

PointAt(gpx, pos) == gpx[pos[1]].segments[pos[2]].points[pos[3]]

\* pos comes before q in document order.
Before(pos, q) ==
    \/ pos[1] < q[1]
    \/ pos[1] = q[1] /\ pos[2] < q[2]
    \/ pos[1] = q[1] /\ pos[2] = q[2] /\ pos[3] < q[3]

\* The process has ended after one call of the converter on a GPX file that
\* can be read, with an output that can be opened.
ConvertedSoundly ==
    /\ pc = "exited"
    /\ Len(calls) = 1
    /\ calls[1].fn = "convert"
    /\ CanRead(fs, calls[1].a)
    /\ fs[calls[1].a].fmt = "gpx"
    /\ calls[1].b \notin unwritable

\* The document converted, and what json loads from the output file.
SourceDoc == fs[calls[1].a].doc
Written == Load(fs[calls[1].b].toks)
CoordinatesOf(geojson) == Get(Get(geojson, "geometry"), "coordinates").items
PropertiesOf(geojson) == Get(geojson, "properties")

\* C1: a document with at least one point is converted, and the coordinates
\* written hold exactly one entry per point, the entry at a point's rank in
\* document order (tracks, then segments, then points) being that point's
\* [longitude, latitude, ...]; the geometry is one LineString.
C1_FlatInOrder ==
    (ConvertedSoundly /\ TotalPoints(SourceDoc) >= 1) =>
        /\ calls[1].ret = "True"
        /\ IsFile(fs, calls[1].b)
        /\ LET gpx == SourceDoc
               w == Written
               coordinates == CoordinatesOf(w.val)
               all == Positions(gpx)
           IN  /\ w.ok
               /\ Get(w.val, "type") = PyStr(Str("Feature"))
               /\ Get(Get(w.val, "geometry"), "type") = PyStr(Str("LineString"))
               /\ Len(coordinates) = TotalPoints(gpx)
               /\ \A pos \in all :
                    LET c == coordinates[1 + Cardinality({q \in all : Before(q, pos)})]
                    IN  /\ c.t = "list"
                        /\ c.items[1] = PyNum(PointAt(gpx, pos).longitude)
                        /\ c.items[2] = PyNum(PointAt(gpx, pos).latitude)

\* A conversion of a document of two tracks, the first of two segments of
\* which only the second holds a point, the second track holding another.
C1_Witness ==
    /\ ConvertedSoundly
    /\ calls[1].ret = "True"
    /\ Len(SourceDoc) = 2
    /\ Len(SourceDoc[1].segments) = 2
    /\ Len(SourceDoc[1].segments[1].points) = 0
    /\ Len(SourceDoc[1].segments[2].points) = 1
    /\ PointCount(SourceDoc[2].segments) = 1
    /\ \E pos, q \in Positions(SourceDoc) : PointAt(SourceDoc, pos) # PointAt(SourceDoc, q)

\* C2: the coordinate written for a point has length 3 and the point's
\* elevation third when the point carries an elevation (0 included), and has
\* length exactly 2 when it carries none, whatever the other points carry.
C2_ElevationPerPoint ==
    (ConvertedSoundly /\ calls[1].ret = "True") =>
        LET gpx == SourceDoc
            coordinates == CoordinatesOf(Written.val)
            all == Positions(gpx)
        IN  \A pos \in all :
              LET c == coordinates[1 + Cardinality({q \in all : Before(q, pos)})]
                  e == PointAt(gpx, pos).elevation
              IN  IF e # NoneV
                  THEN Len(c.items) = 3 /\ c.items[3] = PyNum(e[1])
                  ELSE Len(c.items) = 2

\* A conversion of a document whose first point has elevation 0 and whose
\* second point has none.
C2_Witness ==
    /\ ConvertedSoundly
    /\ calls[1].ret = "True"
    /\ LET coordinates == CoordinatesOf(Written.val) IN
       /\ Len(coordinates) = 2
       /\ Len(coordinates[1].items) = 3
       /\ coordinates[1].items[3] = PyNum(0)
       /\ Len(coordinates[2].items) = 2

\* C3: a process that converts a readable GPX document without any point
\* gets False from the converter, which prints the error; it opens no path
\* for writing and leaves the file system as it was: no output appears and a
\* file already at the output path keeps its content.
C3_EmptyDocumentFails ==
    [][ ( /\ pc' = "exited"
          /\ Len(calls') = 1
          /\ calls'[1].fn = "convert"
          /\ CanRead(fs, calls'[1].a)
          /\ fs[calls'[1].a].fmt = "gpx"
          /\ TotalPoints(fs[calls'[1].a].doc) = 0 )
        => ( /\ calls'[1].ret = "False"
             /\ stdout' = <<Line("error_converting", calls'[1].a, Empty, 0, 0)>>
             /\ opened_w' = {}
             /\ fs' = fs ) ]_vars

\* A failed conversion of a document of two tracks, with segments but no
\* point, while an older output lies at the output path, which is writable.
C3_Witness ==
    /\ pc = "exited"
    /\ Len(calls) = 1
    /\ calls[1].fn = "convert"
    /\ calls[1].ret = "False"
    /\ CanRead(fs, calls[1].a)
    /\ fs[calls[1].a].fmt = "gpx"
    /\ Len(fs[calls[1].a].doc) = 2
    /\ fs[calls[1].a].doc[1].segments # <<>>
    /\ TotalPoints(fs[calls[1].a].doc) = 0
    /\ calls[1].b \notin unwritable
    /\ IsFile(fs, calls[1].b)
    /\ fs[calls[1].b] = OldOut

\* C4: a conversion writes as properties exactly name and description: the
\* name is the first track's name when that is a non-empty string and the
\* stem of the input file (here "a", of in/a.gpx) otherwise; the description
\* is the first track's description when it has one and "" otherwise.  No
\* other track is consulted.
C4_NameAndDescription ==
    (ConvertedSoundly /\ calls[1].ret = "True" /\ calls[1].a = TrackGpx) =>
        LET first == SourceDoc[1]
            properties == PropertiesOf(Written.val)
        IN  /\ Keys(properties) = {"name", "description"}
            /\ Get(properties, "name") =
                 IF first.name \notin {NoneV, Some(Empty)}
                 THEN PyStr(first.name[1]) ELSE PyStr(Str("a"))
            /\ Get(properties, "description") =
                 IF first.description # NoneV
                 THEN PyStr(first.description[1]) ELSE PyStr(Empty)

\* A conversion in which the first track has no point, no name and no
\* description and the second track has a point, a name and a description.
C4_Witness ==
    /\ ConvertedSoundly
    /\ calls[1].ret = "True"
    /\ Len(SourceDoc) = 2
    /\ SourceDoc[1].segments = <<>>
    /\ SourceDoc[1].name = NoneV
    /\ SourceDoc[1].description = NoneV
    /\ SourceDoc[2].name = Some(Str("Morning Run"))
    /\ SourceDoc[2].description = Some(Str("A loop"))
    /\ Get(PropertiesOf(Written.val), "name") = PyStr(Str("a"))

-----------------------------------------------------------------------------
(* Conversions and patches of one output file. *)

WithLocation ==
    DictSet(SetLocation(OldFeature, Tahoe), "id", PyNum(7))

\* What may lie at the output path before the first process runs.
PatchTargets ==
    { Junk,
      TextFile(Dump(OldFeature) \o <<Punct("}")>>),
      TextFile(Dump(PyList(<<PyNum(1)>>))),
      TextFile(Dump(PyDict(<<[k |-> "type", v |-> FeatureType]>>))),
      TextFile(Dump(PyDict(<<[k |-> "properties", v |-> PyNull]>>))),
      TextFile(Dump(PyDict(<<[k |-> "properties", v |-> PyStr(Tahoe)]>>))),
      TextFile(Dump(PyDict(<<[k |-> "properties", v |-> PyList(<<>>)]>>))),
      OldOut,
      TextFile(Dump(WithLocation)) }

InitPatch ==
    \E gpx \in {MorningRun, Unnamed, NoTracks},
       target \in {<<>>} \cup {<<f>> : f \in PatchTargets},
       nr \in SUBSET {TrackOut}, nw \in SUBSET {TrackOut} :
        InWorld(World(IF target = <<>> THEN OneFile(GpxFile(gpx))
                      ELSE (TrackOut :> target[1]) @@ OneFile(GpxFile(gpx)),
                      nr, nw, FALSE))

ArgvPatch ==
    { <<Prog, TrackGpx, TrackOut>>,
      <<Prog, AddLocationFlag, TrackOut, Yosemite>>,
      <<Prog, AddLocationFlag, TrackOut, Tahoe>>,
      <<Prog, AddLocationFlag, TrackGpx, Yosemite>> }

NextPatch == \E av \in ArgvPatch : SingleFileMode(av) \/ AddLocationMode(av)

SpecPatch == InitPatch /\ [][NextPatch]_vars

\* The process has ended after one call of the patcher.
Patched ==
    /\ pc = "exited"
    /\ Len(calls) = 1
    /\ calls[1].fn = "add_location"

\* C5: once a conversion has written a file and the patcher is run on it
\* with a location (the file being readable), the patcher reports success and
\* the file loads as a document whose properties.location is that location,
\* whatever location it held before, and whose type, geometry and other
\* properties are those the conversion wrote, with no other key.
C5_RoundTrip ==
    (Patched /\ calls[1].a \in DOMAIN converted /\ calls[1].a \notin unreadable) =>
        LET w == Load(fs[calls[1].a].toks)
            c == converted[calls[1].a].dumped
        IN  /\ stdout = <<Line("added_location", calls[1].a, calls[1].b, 0, 0)>>
            /\ w.ok
            /\ Keys(w.val) = Keys(c)
            /\ Get(w.val, "type") = Get(c, "type")
            /\ Get(w.val, "geometry") = Get(c, "geometry")
            /\ Keys(PropertiesOf(w.val)) = Keys(PropertiesOf(c)) \cup {"location"}
            /\ \A k \in Keys(PropertiesOf(c)) :
                 Get(PropertiesOf(w.val), k) = Get(PropertiesOf(c), k)
            /\ Get(PropertiesOf(w.val), "location") = PyStr(calls[1].b)

\* The output of a conversion of the spec's example, patched with one
\* location and then with another, which replaced the first.
C5_Witness ==
    /\ Patched
    /\ calls[1].a \in DOMAIN converted
    /\ calls[1].b = Tahoe
    /\ converted[calls[1].a].replaced = Some(Yosemite)
    /\ Get(PropertiesOf(converted[calls[1].a].dumped), "name") = PyStr(Str("Morning Run"))
    /\ Get(PropertiesOf(Load(fs[calls[1].a].toks).val), "location") = PyStr(Tahoe)

\* The file p cannot be patched: it cannot be read, or is not JSON, or is JSON
\* without an object under the key properties of a top-level object.
Unpatchable(files, p) ==
    \/ ~CanRead(files, p)
    \/ files[p].fmt # "text"
    \/ LET w == Load(files[p].toks) IN
       \/ ~w.ok
       \/ w.val.t # "dict"
       \/ "properties" \notin Keys(w.val)
       \/ Get(w.val, "properties").t # "dict"

\* C10: a process that runs the patcher on a file that cannot be read, is
\* not valid JSON or has no properties mapping leaves the file system as it
\* was and opens nothing for writing; the error is printed and the process
\* ends normally, with status 0.
C10_FailedPatchKeepsFile ==
    [][ ( /\ pc' = "exited"
          /\ Len(calls') = 1
          /\ calls'[1].fn = "add_location"
          /\ Unpatchable(fs, calls'[1].a) )
        => ( /\ fs' = fs
             /\ opened_w' = {}
             /\ stdout' = <<Line("error_updating", calls'[1].a, Empty, 0, 0)>>
             /\ exit_status' = Some(0) ) ]_vars

\* A failed patch of a writable file that holds JSON whose properties is
\* null: the file still holds it.
C10_Witness ==
    /\ Patched
    /\ stdout[1].kind = "error_updating"
    /\ calls[1].a \notin unwritable
    /\ CanRead(fs, calls[1].a)
    /\ fs[calls[1].a] = TextFile(Dump(PyDict(<<[k |-> "properties", v |-> PyNull]>>)))

-----------------------------------------------------------------------------
(* Conversions of a directory. *)

\* The names a GPX file may bear in the input directory, and another file.
GpxNames == { <<"a", "gpx">>, <<"a", "GPX">>, <<"b", "gpx">>, <<"b", "Gpx">> }
OtherNames == { <<"c", "txt">> }

\* What a file of the directory may hold: a track of one point, a document
\* without tracks, a text that is not GPX.
Contents == { GpxFile(Unnamed), GpxFile(NoTracks), Junk }

\* The input directory with the files of `holds` (name -> content), beside a
\* subdirectory that holds a GPX file.
DirectoryOf(holds) ==
    [p \in {InFile(nm[1], nm[2]) : nm \in DOMAIN holds} |->
        holds[CHOOSE nm \in DOMAIN holds : InFile(nm[1], nm[2]) = p]]
    @@ (InDir :> Dir) @@ (SubDir :> Dir) @@ (SubFile :> GpxFile(Unnamed))

\* Two names that a file system which ignores case takes for one.
SameFolded(nm, other) == nm[1] = other[1] /\ Lower(Chars(nm[2])) = Lower(Chars(other[2]))

InitDir ==
    \E names \in SUBSET (GpxNames \cup OtherNames) :
        /\ Cardinality(names) <= MaxFiles
        /\ \E holds \in [names -> Contents],
              fold \in BOOLEAN,
              made \in BOOLEAN,
              nr \in SUBSET {InFile("a", "gpx")},
              nw \in SUBSET {OutFile("b")} :
             /\ \A nm \in names \cap OtherNames : holds[nm] = GpxFile(Unnamed)
             /\ fold => \A nm, other \in names : SameFolded(nm, other) => nm = other
             /\ InWorld(World(IF made THEN (OutDir :> Dir) @@ DirectoryOf(holds)
                              ELSE DirectoryOf(holds),
                              nr, nw, fold))

ArgvDir == { <<Prog, InDir, OutDir>> }

NextDir == (\E av \in ArgvDir : DirectoryMode(av)) \/ LoopStep \/ Summary

SpecDir == InitDir /\ [][NextDir]_vars

\* The loop of convert_directory runs on: Python runs one statement after
\* the other, and no step of the loop waits for anything.
FairSpecDir == SpecDir /\ WF_vars(LoopStep) /\ WF_vars(Summary)

\* The process has ended in directory mode, os.makedirs having succeeded.
DirectoryDone ==
    /\ pc = "exited"
    /\ Len(sys_argv) = 3
    /\ IsDir(fs, sys_argv[2])
    /\ exit_status = Some(0)

\* The GPX files of the input directory: the files directly inside it whose
\* extension is gpx, compared without regard to case.
GpxFilesIn(d) ==
    { p \in Entries(fs, d) : IsFile(fs, p) /\ Lower(p.ext) = Lower(Chars("gpx")) }

\* A GPX file that converts: it can be read, parses and holds a point.
Valid(p) == CanRead(fs, p) /\ fs[p].fmt = "gpx" /\ TotalPoints(fs[p].doc) >= 1

Count(calls_, p) == Cardinality({i \in 1..Len(calls_) : calls_[i].a = p})

\* C8 (as claimed): when convert_directory is done, the converter has been
\* called exactly once on each file directly inside the input directory whose
\* extension is gpx in any letter case, and on nothing else.
C8_Claim ==
    DirectoryDone =>
        /\ \A p \in GpxFilesIn(sys_argv[2]) : Count(calls, p) = 1
        /\ \A i \in 1..Len(calls) : calls[i].a \in GpxFilesIn(sys_argv[2])

\* C6 (as claimed), on a platform whose glob tells the cases apart, for a
\* directory whose GPX files are all spelled .gpx or .GPX and can all be read
\* and written: the summary reads N/M, M the number of GPX files and N the
\* number of valid ones, and the output directory holds exactly N files, one
\* named <stem>.geojson for each valid input.
C6_Claim ==
    ( /\ DirectoryDone
      /\ ~foldcase
      /\ unreadable = {} /\ unwritable = {}
      /\ GpxFilesIn(sys_argv[2]) # {}
      /\ \A p \in GpxFilesIn(sys_argv[2]) : p.ext \in {Chars("gpx"), Chars("GPX")} )
    => LET all == GpxFilesIn(sys_argv[2])
           valid == {p \in all : Valid(p)}
           outputs == {q \in Entries(fs, sys_argv[3]) : IsFile(fs, q)}
       IN  /\ stdout[Len(stdout)] =
                Line("summary", Empty, Empty, Cardinality(valid), Cardinality(all))
           /\ Cardinality(outputs) = Cardinality(valid)
           /\ outputs = {GeojsonIn(sys_argv[3], Stem(p)) : p \in valid}

\* The calls made so far are those of the list, in its order, and each has
\* returned what its own input and output decide: True when the input can be
\* read, parses and holds a point and the output can be opened, else False
\* after an error line; one line is printed per call.
LoopSound ==
    (pc = "loop" \/ (pc = "exited" /\ calls # <<>> /\ Len(sys_argv) = 3
                     /\ IsDir(fs, sys_argv[2]))) =>
        /\ pc = "loop" => Len(calls) = idx - 1
        /\ Len(calls) <= Len(gpx_files)
        /\ Len(stdout) >= 1 + Len(calls)
        /\ \A i \in 1..Len(calls) :
             /\ calls[i].fn = "convert"
             /\ calls[i].a = gpx_files[i]
             /\ calls[i].ret = IF Valid(calls[i].a) /\ calls[i].b \notin unwritable
                               THEN "True" ELSE "False"
             /\ stdout[1 + i].a = calls[i].a
             /\ stdout[1 + i].kind = IF calls[i].ret = "True"
                                     THEN "converted" ELSE "error_converting"

\* The process has ended with the summary line, after a call for every file
\* of the list.
SummaryPrinted ==
    /\ pc = "exited"
    /\ exit_status = Some(0)
    /\ Len(calls) = Len(gpx_files)
    /\ stdout[Len(stdout)].kind = "summary"
    /\ stdout[Len(stdout)].m = Len(gpx_files)
    /\ stdout[Len(stdout)].n = Cardinality({i \in 1..Len(calls) : calls[i].ret = "True"})

\* C7: in directory mode the files of the list are converted one after the
\* other in the order of the list, a failure is reported and changes the
\* outcome of no other file, and a process that has entered the loop always
\* ends with the summary line, after a call for every file of the list.
C7_BatchContinues ==
    /\ [](LoopSound)
    /\ (pc = "loop") ~> SummaryPrinted

\* A batch that has ended with its summary after a first call that failed and
\* a later call that succeeded.
C7_Witness ==
    /\ SummaryPrinted
    /\ Len(calls) >= 2
    /\ calls[1].ret = "False"
    /\ \E i \in 2..Len(calls) : calls[i].ret = "True"

-----------------------------------------------------------------------------
(* The whole program: processes run one after the other on one file system,
   each with a command line of its own. *)

\* A file system with one GPX file in the input directory; the output file
\* and the output directory exist or not; paths may be closed to this user.
Init ==
    \E input \in Contents, old \in BOOLEAN, made \in BOOLEAN,
       nr \in SUBSET {TrackGpx}, nw \in SUBSET {TrackOut, OutDir} :
        InWorld(World((IF old THEN (TrackOut :> OldOut) ELSE NoFiles)
                      @@ (IF made THEN (OutDir :> Dir) ELSE NoFiles)
                      @@ OneFile(input),
                      nr, nw, FALSE))

Argv ==
    { <<Prog>>,
      <<Prog, TrackGpx>>,
      <<Prog, AddLocationFlag, TrackOut>>,
      <<Prog, Missing, TrackOut>>,
      <<Prog, TrackGpx, TrackOut>>,
      <<Prog, AddLocationFlag, TrackOut, Yosemite>>,
      <<Prog, InDir, OutDir>>,
      <<Prog, InDir, TrackGpx>> }

Main(av) ==
    \/ Usage(av)
    \/ AddLocationMode(av)
    \/ DirectoryMode(av)
    \/ SingleFileMode(av)
    \/ InvalidInput(av)

Next == (\E av \in Argv : Main(av)) \/ LoopStep \/ Summary

Spec == Init /\ [][Next]_vars

\* The command line of the process names no input that exists: it is not an
\* --add-location command, and its first argument is neither a file nor a
\* directory.
NoSuchInput ==
    /\ Len(sys_argv) >= 3
    /\ ~IsAddLocation(sys_argv)
    /\ ~IsDir(fs, sys_argv[2])
    /\ ~IsFile(fs, sys_argv[2])

\* C9 (as claimed): a process ends with status 1 exactly when it was given
\* fewer than 2 arguments or an input path that is neither a file nor a
\* directory, and then it has called neither the converter nor the patcher
\* and opened no file for writing; every other process ends with status 0.
C9_Claim ==
    pc = "exited" =>
        /\ exit_status \in {Some(0), Some(1)}
        /\ exit_status = Some(1) <=> (Len(sys_argv) < 3 \/ NoSuchInput)
        /\ exit_status = Some(1) => (calls = <<>> /\ opened_w = {})

====
